---- MODULE Spec2Model ----
(***************************************************************************)
(* silvaengine_utility: the hybrid cache (cache/hybrid_cache.py), its      *)
(* decorators (cache/decorators.py) and the per-name engine registry.      *)
(*                                                                         *)
(* Strings are sequences of atoms (an atom is a TLA+ string): "tenant:42"  *)
(* is <<"tenant", ":", "42">>, so that glob matching and the ':' -> '_'    *)
(* file-name mapping are computed, not assumed.  A SHA-256 digest is one   *)
(* atom that is an injective function of the hashed text.                  *)
(***************************************************************************)
EXTENDS Integers, Sequences, FiniteSets, TLC

VARIABLES
    REDIS_AVAILABLE,  \* hybrid_cache.py:18-26, whether `import redis` worked
    redisUp,          \* environment: the Redis server answers (else every call raises)
    diskOk,           \* environment: the file system lets the process create and write
    now,              \* environment: time.time()
    redis,            \* the Redis server's content: cache key -> [data, expires_at]
    disk,             \* the file system: path -> file content
    instances,        \* HybridCacheEngine._instances: cache_name -> object id
    objs,             \* the heap: object id -> the engine's attributes
    pc,               \* per thread: position inside HybridCacheEngine(cache_name)
    tname,            \* per thread: the cache_name argument of its construction
    tself,            \* per thread: the object __new__ returned (0: none yet)
    handed,           \* history: cache_name -> the objects constructions returned
    started,          \* history: per thread, what the construction found when it began
    diskSet,          \* history: key -> the latest set of that key, when it went to disk
    deco,             \* the parameters of one hybrid_cache(...) decoration
    kin,              \* inputs of a _generate_key comparison
    kout,             \* its outputs
    _cache,           \* ObjectCacheEngine._cache: key -> object id (0: None)
    resolved,         \* the heap: object id -> the object a resolver returned
    permanent,        \* history: names -> the object the resolver returned for them
    _lock,            \* ObjectCacheEngine._lock: the thread that holds it, or None
    call,             \* per thread: the Object Cache call it is in, with its locals
    policy            \* per Authorizer: its AuthPolicy's allow_methods and deny_methods

vars == <<REDIS_AVAILABLE, redisUp, diskOk, now, redis, disk, instances, objs,
          pc, tname, tself, handed, started, diskSet, deco, kin, kout,
          _cache, resolved, permanent, _lock, call, policy>>

envVars == <<REDIS_AVAILABLE, redisUp, diskOk, now>>
storeVars == <<redis, disk>>
threadVars == <<pc, tname, tself, handed, started>>
keyVars == <<kin, kout, policy>>
objVars == <<_cache, resolved, permanent, _lock, call>>

(***************************************************************************)
(* Bounds                                                                  *)
(***************************************************************************)
MaxTime == 3
MaxTTL == 2
MaxObjs == 3

None == "None"
NoPath == <<>>
Times == 1..MaxTime
TTLs == 1..MaxTTL

(***************************************************************************)
(* Text                                                                    *)
(***************************************************************************)
Replace(s, a, b) == [i \in 1..Len(s) |-> IF s[i] = a THEN b ELSE s[i]]

IsPrefix(p, s) == Len(p) <= Len(s) /\ SubSeq(s, 1, Len(p)) = p

\* Glob matching as Redis SCAN MATCH and pathlib's glob do it within one
\* name: a '*' matches any run of characters, everything else itself.
RECURSIVE Glob(_, _)
Glob(p, s) ==
    IF p = <<>> THEN s = <<>>
    ELSE IF Head(p) = "*"
         THEN Glob(Tail(p), s) \/ (s # <<>> /\ Glob(p, Tail(s)))
         ELSE s # <<>> /\ Head(s) = Head(p) /\ Glob(Tail(p), Tail(s))

\* hashlib.sha256(key_str.encode()).hexdigest()[:16]: sixteen hex digits, one
\* atom, never equal to a literal atom and different for different texts.
sha256_hexdigest16(key_str) == "sha256:" \o ToString(key_str)

\* pickle.dumps / pickle.loads
pickle_dumps(v) == [pickled |-> v]
pickle_loads(b) == b.pickled
EmptyBytes == [empty |-> TRUE]
CanUnpickle(b) == "pickled" \in DOMAIN b

(***************************************************************************)
(* json.dumps(key_data, sort_keys=True, default=str)                       *)
(* Python values: [int |-> n], [pystr |-> s], [tuple |-> seq],             *)
(* [list |-> seq], [dict |-> seq of <<key, value>> in insertion order],    *)
(* [obj |-> type name, str |-> what str(o) gives].                         *)
(***************************************************************************)
PyInt(n) == [int |-> n]
PyStr(s) == [pystr |-> s]
PyTuple(xs) == [tuple |-> xs]
PyList(xs) == [list |-> xs]
PyDict(ps) == [dict |-> ps]
PyObj(t, s) == [obj |-> t, str |-> s]

DictKeys(ps) == {ps[i][1] : i \in 1..Len(ps)}
DictGet(ps, k) == ps[CHOOSE i \in 1..Len(ps) : ps[i][1] = k /\ \A j \in (i+1)..Len(ps) : ps[j][1] # k][2]

RECURSIVE json_tree(_)
json_tree(v) ==
    LET D == DOMAIN v IN
    IF "int" \in D THEN [num |-> v.int]
    ELSE IF "pystr" \in D THEN [str |-> v.pystr]
    ELSE IF "tuple" \in D THEN [arr |-> [i \in 1..Len(v.tuple) |-> json_tree(v.tuple[i])]]
    ELSE IF "list" \in D THEN [arr |-> [i \in 1..Len(v.list) |-> json_tree(v.list[i])]]
    ELSE IF "dict" \in D
         THEN [object |-> [k \in DictKeys(v.dict) |-> json_tree(DictGet(v.dict, k))]]
    ELSE [str |-> v.str]

\* The text json.dumps returns: one atom, the rendering of the sorted tree.
json_dumps(v) == <<ToString(json_tree(v))>>

(***************************************************************************)
(* HybridCacheEngine helpers                                               *)
(***************************************************************************)
_generate_key(cache_name, prefix, key_data) ==
    LET key_str == IF "pystr" \in DOMAIN key_data THEN key_data.pystr
                   ELSE json_dumps(key_data)
        key_hash == sha256_hexdigest16(key_str)
    IN <<cache_name, ":", prefix, ":", key_hash>>

BaseDir == "/tmp/silvaengine_cache"
DirOf(cache_name) == <<BaseDir, "/", cache_name>>

_get_disk_path(e, key) ==
    IF e.disk_cache_dir = NoPath THEN NoPath
    ELSE e.disk_cache_dir \o <<"/">> \o Replace(key, ":", "_") \o <<".cache">>

\* Path.glob(pattern) in a directory: the paths of its files whose name matches.
DirGlob(files, dir, pattern) ==
    {p \in DOMAIN files :
        /\ IsPrefix(dir \o <<"/">>, p)
        /\ Glob(pattern, SubSeq(p, Len(dir) + 2, Len(p)))}

Remove(f, ks) == [k \in DOMAIN f \ ks |-> f[k]]
Put(f, k, v) == [x \in DOMAIN f \cup {k} |-> IF x = k THEN v ELSE f[x]]

_setup_redis(e, w) ==
    IF ~w.mod THEN [e EXCEPT !.redis_client = None, !.redis_available = FALSE]
    ELSE IF w.redisUp
         THEN [e EXCEPT !.redis_client = "client", !.redis_available = TRUE]
         ELSE [e EXCEPT !.redis_client = None, !.redis_available = FALSE]

_ensure_redis_flag_only(e, w) == e

\* lines 97-101
_ensure_redis(e, w) ==
    IF e.redis_available /\ e.redis_client # None THEN e ELSE _setup_redis(e, w)

_setup_disk_cache(e, w) ==
    IF w.diskOk THEN [e EXCEPT !.disk_cache_dir = DirOf(e.cache_name)]
    ELSE [e EXCEPT !.disk_cache_dir = NoPath]

\* A record as pickle.load gives it back (found), or None.  A file whose
\* bytes do not unpickle gives None and stays; one that unpickles to something
\* else than a mapping with both fields is removed.
IsRecord(r) == {"expires_at", "value"} \subseteq DOMAIN r
NoRecord == [expires_at |-> 0, value |-> None]
_load_disk_record(files, p) ==
    IF p \notin DOMAIN files THEN [found |-> FALSE, rec |-> NoRecord, files |-> files]
    ELSE IF ~CanUnpickle(files[p]) THEN [found |-> FALSE, rec |-> NoRecord, files |-> files]
    ELSE IF IsRecord(pickle_loads(files[p]))
         THEN [found |-> TRUE, rec |-> pickle_loads(files[p]), files |-> files]
         ELSE [found |-> FALSE, rec |-> NoRecord, files |-> Remove(files, {p})]

\* open("wb") then pickle.dump: a write that fails either never opened the
\* file (fault "open") or had truncated it already (fault "dump").
_write_disk_record(files, p, value, expires_at, w, fault) ==
    IF w.diskOk
    THEN [ok |-> TRUE,
          files |-> Put(files, p, pickle_dumps([expires_at |-> expires_at, value |-> value]))]
    ELSE [ok |-> FALSE,
          files |-> IF fault = "dump" THEN Put(files, p, EmptyBytes) ELSE files]

_safe_remove(files, p) ==
    [ok |-> p \in DOMAIN files, files |-> Remove(files, {p})]

(***************************************************************************)
(* The world an engine operation runs in, and what it returns              *)
(***************************************************************************)
DefaultId == instances["default"]

World ==
    [e |-> objs[DefaultId], redis |-> redis, disk |-> disk,
     mod |-> REDIS_AVAILABLE, redisUp |-> redisUp, diskOk |-> diskOk, now |-> now]

\* What an operation leaves behind and returns: ret (get), ok (set, delete),
\* count (clear, clear_expired), raised (an exception escaped), tier (the
\* tier that answered or took the write).
Result(e, r, d, ret, ok, count, raised, tier) ==
    [e |-> e, redis |-> r, disk |-> d, ret |-> ret, ok |-> ok, count |-> count,
     raised |-> raised, tier |-> tier]

After(w, r) == [w EXCEPT !.e = r.e, !.redis = r.redis, !.disk = r.disk]

UsesRedis(e) == e.redis_available /\ e.redis_client # None

NoArg == -1
\* A record whose expires_at is not a number carries the type's name; the
\* comparison at lines 211 and 267 raises TypeError on it.
IsNumber(record) == "expires_at_type" \notin DOMAIN record

(***************************************************************************)
(* HybridCacheEngine: the public operations                                *)
(***************************************************************************)
clear_expired(e, files, nowArg, time) ==
    IF e.disk_cache_dir = NoPath THEN [count |-> 0, files |-> files, raised |-> FALSE]
    ELSE
    LET current_time == IF nowArg = NoArg \/ nowArg = 0 THEN time ELSE nowArg
        matched == DirGlob(files, e.disk_cache_dir, <<"*", ".cache">>)
        Ld(p) == _load_disk_record(files, p)
        bad == {p \in matched : Ld(p).found /\ ~IsNumber(Ld(p).rec)}
        stale == {p \in matched \ bad :
                    ~Ld(p).found \/ Ld(p).rec.expires_at <= current_time}
        unlinked == {p \in stale : p \in DOMAIN Ld(p).files}
    IN [count |-> Cardinality(unlinked), files |-> Remove(files, stale),
        raised |-> bad # {}]

\* line 211: record["expires_at"] <= time.time()
get_expired_strict(record, time) == record.expires_at < time
get_expired(record, time) == record.expires_at <= time

\* lines 202-215
get_from_disk(w, e, cache_key) ==
    LET disk_path == _get_disk_path(e, cache_key)
        ld == _load_disk_record(w.disk, disk_path)
    IN IF disk_path = NoPath
       THEN Result(e, w.redis, w.disk, None, FALSE, 0, FALSE, "none")
       ELSE IF ~ld.found
       THEN Result(e, w.redis, _safe_remove(ld.files, disk_path).files, None,
                   FALSE, 0, FALSE, "disk")
       ELSE IF ~IsNumber(ld.rec)
       THEN Result(e, w.redis, w.disk, None, FALSE, 0, TRUE, "disk")
       ELSE IF get_expired(ld.rec, w.now)
       THEN Result(e, w.redis, _safe_remove(w.disk, disk_path).files, None,
                   FALSE, 0, FALSE, "disk")
       ELSE Result(e, w.redis, w.disk, ld.rec.value, TRUE, 0, FALSE, "disk")

get(w, key) ==
    LET cache_key == _generate_key(w.e.cache_name, "cache", PyStr(key))
        e1 == _ensure_redis(w.e, w)
        raises == UsesRedis(e1) /\ ~w.redisUp
        hit == UsesRedis(e1) /\ w.redisUp /\ cache_key \in DOMAIN w.redis
        e2 == IF raises THEN [e1 EXCEPT !.redis_available = FALSE] ELSE e1
    IN IF hit
       THEN Result(e1, w.redis, w.disk, pickle_loads(w.redis[cache_key].data),
                   TRUE, 0, FALSE, "redis")
       ELSE get_from_disk(w, e2, cache_key)

\* line 224: setex(cache_key, ttl, pickle.dumps(value))
setex(w, cache_key, ttl, value) ==
    Put(w.redis, cache_key, [data |-> pickle_dumps(value), expires_at |-> w.now + ttl])

\* lines 230-236
set_on_disk(w, e, cache_key, value, ttl, fault) ==
    LET disk_path == _get_disk_path(e, cache_key)
        ce == clear_expired(e, w.disk, w.now, w.now)
        wr == _write_disk_record(ce.files, disk_path, value, w.now + ttl, w, fault)
    IN IF disk_path = NoPath
       THEN Result(e, w.redis, w.disk, None, FALSE, 0, FALSE, "none")
       ELSE IF ce.raised
       THEN Result(e, w.redis, w.disk, None, FALSE, 0, TRUE, "disk")
       ELSE Result(e, w.redis, wr.files, None, wr.ok, 0, FALSE, "disk")

set_redis_only(w, key, value, ttl, fault) ==
    LET cache_key == _generate_key(w.e.cache_name, "cache", PyStr(key))
        e1 == _ensure_redis(w.e, w)
    IN IF UsesRedis(e1) /\ w.redisUp
       THEN Result(e1, setex(w, cache_key, ttl, value), w.disk, None, TRUE, 0, FALSE, "redis")
       ELSE Result(e1, w.redis, w.disk, None, FALSE, 0, FALSE, "none")

set_write_through(w, key, value, ttl, fault) ==
    LET cache_key == _generate_key(w.e.cache_name, "cache", PyStr(key))
        e1 == _ensure_redis(w.e, w)
        raises == UsesRedis(e1) /\ ~w.redisUp
        e2 == IF raises THEN [e1 EXCEPT !.redis_available = FALSE] ELSE e1
    IN IF UsesRedis(e1) /\ w.redisUp
       THEN Result(e1, setex(w, cache_key, ttl, value),
                   set_on_disk(w, e1, cache_key, value, ttl, fault).disk,
                   None, TRUE, 0, FALSE, "redis")
       ELSE set_on_disk(w, e2, cache_key, value, ttl, fault)

set(w, key, value, ttl, fault) ==
    LET cache_key == _generate_key(w.e.cache_name, "cache", PyStr(key))
        e1 == _ensure_redis(w.e, w)
        raises == UsesRedis(e1) /\ ~w.redisUp
        e2 == IF raises THEN [e1 EXCEPT !.redis_available = FALSE] ELSE e1
    IN IF UsesRedis(e1) /\ w.redisUp
       THEN Result(e1, setex(w, cache_key, ttl, value), w.disk, None, TRUE, 0, FALSE, "redis")
       ELSE set_on_disk(w, e2, cache_key, value, ttl, fault)

delete_short_circuit(w, key) ==
    LET cache_key == _generate_key(w.e.cache_name, "cache", PyStr(key))
        e1 == _ensure_redis(w.e, w)
        reach == UsesRedis(e1) /\ w.redisUp
        in_redis == reach /\ cache_key \in DOMAIN w.redis
        r1 == IF reach THEN Remove(w.redis, {cache_key}) ELSE w.redis
        disk_path == _get_disk_path(e1, cache_key)
        rm == IF disk_path = NoPath \/ in_redis THEN [ok |-> FALSE, files |-> w.disk]
              ELSE _safe_remove(w.disk, disk_path)
    IN Result(e1, r1, rm.files, None, in_redis \/ rm.ok, 0, FALSE,
              IF reach THEN "redis" ELSE "disk")

delete(w, key) ==
    LET cache_key == _generate_key(w.e.cache_name, "cache", PyStr(key))
        e1 == _ensure_redis(w.e, w)
        reach == UsesRedis(e1) /\ w.redisUp
        in_redis == reach /\ cache_key \in DOMAIN w.redis
        r1 == IF reach THEN Remove(w.redis, {cache_key}) ELSE w.redis
        disk_path == _get_disk_path(e1, cache_key)
        rm == IF disk_path = NoPath THEN [ok |-> FALSE, files |-> w.disk]
              ELSE _safe_remove(w.disk, disk_path)
    IN Result(e1, r1, rm.files, None, in_redis \/ rm.ok, 0, FALSE,
              IF reach THEN "redis" ELSE "disk")

clear(w, pattern) ==
    LET e1 == _ensure_redis(w.e, w)
        reach == UsesRedis(e1) /\ w.redisUp
        keys_pattern == <<w.e.cache_name, ":">> \o pattern
        keys == IF reach THEN {k \in DOMAIN w.redis : Glob(keys_pattern, k)} ELSE {}
        disk_pattern == Replace(keys_pattern, ":", "_")
        paths == IF e1.disk_cache_dir = NoPath THEN {}
                 ELSE DirGlob(w.disk, e1.disk_cache_dir, disk_pattern \o <<".cache">>)
    IN Result(e1, Remove(w.redis, keys), Remove(w.disk, paths), None, TRUE,
              Cardinality(keys) + Cardinality(paths), FALSE,
              IF reach THEN "redis" ELSE "disk")

(***************************************************************************)
(* Construction: HybridCacheEngine.__new__ and __init__, line by line      *)
(***************************************************************************)
CacheNames == {"default", "settings"}
Threads == {"t1", "t2"}

Env == [mod |-> REDIS_AVAILABLE, redisUp |-> redisUp, diskOk |-> diskOk]

\* What object.__new__ gives: an object with no attribute yet.
FreshObject ==
    [cache_name |-> "", has_init |-> FALSE, initialized |-> FALSE, inits |-> 0,
     redis_client |-> None, redis_available |-> FALSE, disk_cache_dir |-> NoPath]

\* line 37: ._initialized = False
MarkUninitialized(o) == [o EXCEPT !.has_init = TRUE, !.initialized = FALSE]

\* line 41: getattr(self, "_initialized", False)
IsInitialized_never(o) == FALSE
IsInitialized(o) == o.has_init /\ o.initialized

\* lines 44-48; inits counts how often the body of __init__ ran on the object
ResetAttributes(o, cache_name) ==
    [o EXCEPT !.cache_name = cache_name, !.inits = @ + 1, !.redis_client = None,
              !.redis_available = FALSE, !.disk_cache_dir = NoPath]

\* line 52
MarkInitialized(o) == [o EXCEPT !.has_init = TRUE, !.initialized = TRUE]

\* __init__ run from its first line to its last by one thread
__init__(o, cache_name, w) ==
    IF IsInitialized(o) THEN o
    ELSE MarkInitialized(
             _setup_redis(_setup_disk_cache(ResetAttributes(o, cache_name), w), w))

(***************************************************************************)
(* Inputs                                                                  *)
(***************************************************************************)
K1 == <<"tenant", ":", "42">>
K2 == <<"k">>
EngineKeys == {K1, K2}
Values == {"v1", "v2"}
SetInputs == {<<K1, v, ttl>> : v \in Values, ttl \in TTLs} \cup {<<K2, "v1", 1>>}
Patterns == {<<"*">>, <<"tenant", ":", "*">>, <<"cache", ":", "*">>}
WriteFaults == {"open", "dump"}

EmptyMap == [x \in {} |-> 0]

DecoNone == [condition |-> "always", ttl |-> 1, cache_enabled |-> TRUE, callable |-> FALSE]

(***************************************************************************)
(* Initial states: the module has been imported, which constructs          *)
(* default_cache = HybridCacheEngine() (hybrid_cache.py:302).              *)
(***************************************************************************)
InitEnv ==
    /\ REDIS_AVAILABLE \in BOOLEAN
    /\ redisUp \in (IF REDIS_AVAILABLE THEN BOOLEAN ELSE {FALSE})
    /\ diskOk \in BOOLEAN
    /\ now = 1

InitStores ==
    /\ redis = EmptyMap
    /\ disk = EmptyMap
    /\ diskSet = EmptyMap

InitRegistry ==
    /\ instances = [n \in {"default"} |-> 1]
    /\ objs = [i \in {1} |-> __init__(MarkUninitialized(FreshObject), "default", Env)]

InitThreads ==
    /\ pc = [t \in Threads |-> "idle"]
    /\ tname = [t \in Threads |-> "default"]
    /\ tself = [t \in Threads |-> 0]
    /\ handed = [n \in CacheNames |-> IF n = "default" THEN {1} ELSE {}]
    /\ started = [t \in Threads |-> [solo |-> FALSE, obj |-> 0, was |-> FreshObject]]

InitKeys ==
    /\ kin = <<>>
    /\ kout = <<>>
    /\ policy = EmptyMap

\* A thread that is in no Object Cache call.  The locals of a call: the
\* names and the object passed, what `key in cls._cache` gave (present), what
\* the call returned (ret_*), whether it raised, whether the resolver was
\* invoked and the constructor run; was_present and stale are history.
NoNames ==
    [module_name |-> <<>>, class_name |-> [given |-> FALSE, name |-> <<>>],
     function_name |-> <<>>]
NoCall ==
    [op |-> "none", at |-> "idle", names |-> NoNames, obj |-> 0, parameters |-> "absent",
     present |-> FALSE, ret_obj |-> 0, ret_ok |-> FALSE, ret_size |-> 0, ret_keys |-> {},
     raised |-> FALSE, invoked |-> FALSE, ctor |-> 0, was_present |-> FALSE, stale |-> FALSE]

\* object_cache.py:19-20, _cache = {} and _lock = threading.RLock()
InitObjectCache ==
    /\ _cache = EmptyMap
    /\ resolved = EmptyMap
    /\ permanent = EmptyMap
    /\ _lock = None
    /\ call = [t \in Threads |-> NoCall]

Init ==
    /\ InitEnv
    /\ InitStores
    /\ InitRegistry
    /\ InitThreads
    /\ InitKeys
    /\ InitObjectCache
    /\ deco = DecoNone

(***************************************************************************)
(* The environment                                                         *)
(***************************************************************************)
\* Time passes; Redis drops the keys whose expiry has come (SETEX).
Tick ==
    /\ now < MaxTime
    /\ now' = now + 1
    /\ redis' = Remove(redis, {k \in DOMAIN redis : redis[k].expires_at <= now + 1})
    /\ UNCHANGED <<REDIS_AVAILABLE, redisUp, diskOk, disk, instances, objs, diskSet, deco>>
    /\ UNCHANGED <<threadVars, keyVars, objVars>>

RedisFail ==
    /\ REDIS_AVAILABLE /\ redisUp
    /\ redisUp' = FALSE
    /\ UNCHANGED <<REDIS_AVAILABLE, diskOk, now, storeVars, instances, objs, diskSet, deco>>
    /\ UNCHANGED <<threadVars, keyVars, objVars>>

RedisRecover ==
    /\ REDIS_AVAILABLE /\ ~redisUp
    /\ redisUp' = TRUE
    /\ UNCHANGED <<REDIS_AVAILABLE, diskOk, now, storeVars, instances, objs, diskSet, deco>>
    /\ UNCHANGED <<threadVars, keyVars, objVars>>

(***************************************************************************)
(* Calls on default_cache                                                  *)
(***************************************************************************)
Commit(r) ==
    /\ objs' = [objs EXCEPT ![DefaultId] = r.e]
    /\ redis' = r.redis
    /\ disk' = r.disk
    /\ UNCHANGED <<envVars, instances, deco, threadVars, keyVars, objVars>>

Get(key) ==
    /\ Commit(get(World, key))
    /\ UNCHANGED diskSet

\* diskSet remembers the latest set of a key while that set is the one the
\* disk tier took and no delete or clear came after it.
Set(key, value, ttl, fault) ==
    LET r == set(World, key, value, ttl, fault) IN
    /\ Commit(r)
    /\ diskSet' = IF r.ok /\ r.tier = "disk"
                  THEN Put(diskSet, key, [value |-> value, at |-> now, ttl |-> ttl])
                  ELSE Remove(diskSet, {key})

Delete(key) ==
    /\ Commit(delete(World, key))
    /\ diskSet' = Remove(diskSet, {key})

Clear(pattern) ==
    /\ Commit(clear(World, pattern))
    /\ diskSet' = EmptyMap

\* A caller that passes a later time than the clock's removes records before
\* their expiry: diskSet forgets those, as it does on a delete.
ClearExpired(nowArg) ==
    LET ce == clear_expired(World.e, disk, nowArg, now) IN
    /\ Commit(Result(World.e, redis, ce.files, None, TRUE, ce.count, ce.raised, "disk"))
    /\ diskSet' = Remove(diskSet, {k \in DOMAIN diskSet :
                       /\ now < diskSet[k].at + diskSet[k].ttl
                       /\ _get_disk_path(World.e, _generate_key(World.e.cache_name, "cache", PyStr(k)))
                              \notin DOMAIN ce.files})

FaultsNow == IF diskOk THEN {"open"} ELSE WriteFaults
NowArgs == {NoArg, 0, now, now + 1}

Next ==
    \/ Tick
    \/ RedisFail
    \/ RedisRecover
    \/ \E k \in EngineKeys : Get(k)
    \/ \E i \in SetInputs, f \in FaultsNow : Set(i[1], i[2], i[3], f)
    \/ \E k \in EngineKeys : Delete(k)
    \/ \E p \in Patterns : Clear(p)
    \/ \E a \in NowArgs : ClearExpired(a)

Spec == Init /\ [][Next]_vars

(***************************************************************************)
(* Concurrent construction: threads run HybridCacheEngine(cache_name), one *)
(* source line per step, while the environment changes.                    *)
(***************************************************************************)
Others(t) == Threads \ {t}
NotAlone == [solo |-> FALSE, obj |-> 0, was |-> FreshObject]
Goto(t, label) == pc' = [pc EXCEPT ![t] = label]
ThreadFrame == UNCHANGED <<REDIS_AVAILABLE, now, storeVars, diskSet, deco, keyVars, objVars>>

\* The call begins.  started[t] keeps what the registry held for the name and
\* whether the thread runs alone: every other thread idle, and none beginning
\* before this call ends.
Begin(t, cache_name) ==
    /\ pc[t] = "idle"
    /\ Goto(t, "new_check")
    /\ tname' = [tname EXCEPT ![t] = cache_name]
    /\ tself' = [tself EXCEPT ![t] = 0]
    /\ started' = [u \in Threads |->
                     IF u = t /\ \A x \in Others(t) : pc[x] = "idle"
                     THEN [solo |-> TRUE,
                           obj |-> IF cache_name \in DOMAIN instances
                                   THEN instances[cache_name] ELSE 0,
                           was |-> IF cache_name \in DOMAIN instances
                                   THEN objs[instances[cache_name]] ELSE FreshObject]
                     ELSE NotAlone]
    /\ UNCHANGED <<redisUp, diskOk, instances, objs, handed>>
    /\ ThreadFrame

\* line 35: if cache_name not in cls._instances
NewCheck(t) ==
    /\ pc[t] = "new_check"
    /\ Goto(t, IF tname[t] \notin DOMAIN instances THEN "new_store" ELSE "new_return")
    /\ UNCHANGED <<redisUp, diskOk, instances, objs, tname, tself, handed, started>>
    /\ ThreadFrame

\* line 36: cls._instances[cache_name] = super().__new__(cls)
NewStore(t) ==
    LET id == Cardinality(DOMAIN objs) + 1 IN
    /\ pc[t] = "new_store"
    /\ id <= MaxObjs
    /\ objs' = Put(objs, id, FreshObject)
    /\ instances' = Put(instances, tname[t], id)
    /\ Goto(t, "new_mark")
    /\ UNCHANGED <<redisUp, diskOk, tname, tself, handed, started>>
    /\ ThreadFrame

\* line 37: cls._instances[cache_name]._initialized = False
NewMark(t) ==
    /\ pc[t] = "new_mark"
    /\ objs' = [objs EXCEPT ![instances[tname[t]]] = MarkUninitialized(@)]
    /\ Goto(t, "new_return")
    /\ UNCHANGED <<redisUp, diskOk, instances, tname, tself, handed, started>>
    /\ ThreadFrame

\* line 38: return cls._instances[cache_name]; __init__ is then called on it
NewReturn(t) ==
    /\ pc[t] = "new_return"
    /\ tself' = [tself EXCEPT ![t] = instances[tname[t]]]
    /\ Goto(t, "init_check")
    /\ UNCHANGED <<redisUp, diskOk, instances, objs, tname, handed, started>>
    /\ ThreadFrame

\* The constructor call returns tself[t] to its caller.
Returned(t) ==
    /\ Goto(t, "idle")
    /\ handed' = [handed EXCEPT ![tname[t]] = @ \cup {tself[t]}]

\* lines 41-42: if getattr(self, "_initialized", False): return
InitCheck(t) ==
    /\ pc[t] = "init_check"
    /\ IF IsInitialized(objs[tself[t]])
       THEN Returned(t)
       ELSE Goto(t, "init_attrs") /\ UNCHANGED handed
    /\ UNCHANGED <<redisUp, diskOk, instances, objs, tname, tself, started>>
    /\ ThreadFrame

\* lines 44-48
InitAttrs(t) ==
    /\ pc[t] = "init_attrs"
    /\ objs' = [objs EXCEPT ![tself[t]] = ResetAttributes(@, tname[t])]
    /\ Goto(t, "init_disk")
    /\ UNCHANGED <<redisUp, diskOk, instances, tname, tself, handed, started>>
    /\ ThreadFrame

\* line 50
InitDisk(t) ==
    /\ pc[t] = "init_disk"
    /\ objs' = [objs EXCEPT ![tself[t]] = _setup_disk_cache(@, Env)]
    /\ Goto(t, "init_redis")
    /\ UNCHANGED <<redisUp, diskOk, instances, tname, tself, handed, started>>
    /\ ThreadFrame

\* line 51
InitRedis(t) ==
    /\ pc[t] = "init_redis"
    /\ objs' = [objs EXCEPT ![tself[t]] = _setup_redis(@, Env)]
    /\ Goto(t, "init_done")
    /\ UNCHANGED <<redisUp, diskOk, instances, tname, tself, handed, started>>
    /\ ThreadFrame

\* line 52
InitDone(t) ==
    /\ pc[t] = "init_done"
    /\ objs' = [objs EXCEPT ![tself[t]] = MarkInitialized(@)]
    /\ Returned(t)
    /\ UNCHANGED <<redisUp, diskOk, instances, tname, tself, started>>
    /\ ThreadFrame

NextConc ==
    \/ \E t \in Threads, n \in CacheNames : Begin(t, n)
    \/ \E t \in Threads : NewCheck(t)
    \/ \E t \in Threads : NewStore(t)
    \/ \E t \in Threads : NewMark(t)
    \/ \E t \in Threads : NewReturn(t)
    \/ \E t \in Threads : InitCheck(t)
    \/ \E t \in Threads : InitAttrs(t)
    \/ \E t \in Threads : InitDisk(t)
    \/ \E t \in Threads : InitRedis(t)
    \/ \E t \in Threads : InitDone(t)
    \/ RedisFail
    \/ RedisRecover

SpecConc == Init /\ [][NextConc]_vars

\* C1: for any cache_name, all constructions return the identical instance,
\* also when concurrent threads both find the name absent from the registry.
C1_Singleton == \A n \in CacheNames : Cardinality(handed[n]) <= 1

\* C2: in a single thread, constructing with a name that has an initialized
\* instance returns that instance and leaves it as it was: the setup is not
\* run again, the remote handle, the availability flag and the disk directory
\* are unchanged.
C2_Idempotent ==
    \A t \in Threads :
        (/\ pc[t] = "idle" /\ tself[t] # 0
         /\ started[t].solo /\ started[t].obj # 0 /\ started[t].was.has_init /\ started[t].was.initialized)
        => /\ tself[t] = started[t].obj
           /\ objs[tself[t]] = started[t].was

\* A second construction has returned although the environment is no longer
\* the one the instance was set up in.
C2_Witness ==
    \E t \in Threads :
        /\ pc[t] = "idle" /\ tself[t] # 0
        /\ started[t].solo /\ started[t].obj # 0 /\ started[t].was.has_init /\ started[t].was.initialized
        /\ REDIS_AVAILABLE /\ redisUp /\ ~objs[tself[t]].redis_available

(***************************************************************************)
(* _generate_key on two mappings (specification SpecKey)                   *)
(***************************************************************************)
KeyNames == {"a", "b"}
KeyValues ==
    {PyInt(1), PyInt(2), PyStr(<<"1">>), PyTuple(<<PyInt(1)>>), PyList(<<PyInt(1)>>),
     PyObj("Decimal", <<"1">>)}
KeyPrefixes == {"p", "q"}

\* dict literals in insertion order, no key twice
Mappings ==
    {<<<<k, v>>>> : k \in KeyNames, v \in KeyValues}
    \cup {d \in {<<<<k1, v1>>, <<k2, v2>>>> :
                    k1 \in KeyNames, k2 \in KeyNames, v1 \in KeyValues, v2 \in KeyValues} :
            d[1][1] # d[2][1]}

InitKey ==
    /\ REDIS_AVAILABLE = FALSE /\ redisUp = FALSE /\ diskOk = TRUE /\ now = 1
    /\ InitStores
    /\ InitRegistry
    /\ InitThreads
    /\ deco = DecoNone
    /\ kin \in {[d1 |-> d1, d2 |-> d2, prefix |-> "p"] : d1 \in Mappings, d2 \in Mappings}
    /\ kout = <<>>
    /\ policy = EmptyMap
    /\ InitObjectCache

GenerateKeys(prefix) ==
    /\ kin' = [kin EXCEPT !.prefix = prefix]
    /\ kout' = <<_generate_key(World.e.cache_name, prefix, PyDict(kin.d1)),
                 _generate_key(World.e.cache_name, prefix, PyDict(kin.d2))>>
    /\ UNCHANGED <<envVars, storeVars, instances, objs, diskSet, deco, threadVars, objVars,
                   policy>>

NextKey == \E prefix \in KeyPrefixes : GenerateKeys(prefix)

SpecKey == InitKey /\ [][NextKey]_vars

SamePairs(d1, d2) ==
    /\ DictKeys(d1) = DictKeys(d2)
    /\ \A k \in DictKeys(d1) : DictGet(d1, k) = DictGet(d2, k)

DifferInSomeValue(d1, d2) ==
    /\ DictKeys(d1) = DictKeys(d2)
    /\ \E k \in DictKeys(d1) : DictGet(d1, k) # DictGet(d2, k)

\* C8: _generate_key(prefix, d) depends on the key-sorted content of d only:
\* the same key/value pairs in another insertion order give the same cache
\* key, and mappings that differ in some value give different cache keys.
C8_KeyStability ==
    kout # <<>> =>
        /\ SamePairs(kin.d1, kin.d2) => kout[1] = kout[2]
        /\ DifferInSomeValue(kin.d1, kin.d2) => kout[1] # kout[2]

(***************************************************************************)
(* hybrid_cache(ttl, condition, cache_enabled) around a function f         *)
(* (specification SpecDeco).  The function's outcome on a call is an input.*)
(***************************************************************************)
FuncPrefix == "app.f"
DecoArgs == {<<PyInt(1)>>, <<PyInt(2)>>}
Results == {"r1", "r2", None}
Outcomes == Results \cup {"raise"}
\* what f does in the calls that are made; "r2" is kept for the calls that a
\* state is asked about
CallOutcomes == {"r1", None, "raise"}
SkipKw == {"absent", "True", "False"}

Conditions == {"always", "not_none"}

\* line 78: condition is None or condition(result), with
\* condition = lambda r: r is not None
condition_ignored(c, result) == TRUE
condition_holds(c, result) == c = "always" \/ result # None

\* lines 49-51: cache_enabled() if callable(cache_enabled) else cache_enabled.
\* d.cache_enabled is the static value, or what the callable returns now.
is_cache_enabled_ignored(d) == TRUE
is_cache_enabled(d) == d.cache_enabled

\* What a call of the wrapper leaves behind and returns; invoked counts the
\* calls of f, reads and writes those of cache_engine.get and .set, saw_skip
\* tells that f received the skip_cache keyword.
Called(r, ret, raised, invoked, reads, writes, saw_skip) ==
    [e |-> r.e, redis |-> r.redis, disk |-> r.disk, ret |-> ret, raised |-> raised,
     invoked |-> invoked, reads |-> reads, writes |-> writes, saw_skip |-> saw_skip]

Untouched(w) == [e |-> w.e, redis |-> w.redis, disk |-> w.disk]

\* lines 53 and 58: return func(*args, **kwargs)
call_through(w, outcome, saw_skip) ==
    Called(Untouched(w), IF outcome = "raise" THEN None ELSE outcome,
           outcome = "raise", 1, 0, 0, saw_skip)

\* lines 61-67
wrapper_key(w, args) ==
    _generate_key(w.e.cache_name, FuncPrefix,
                  PyDict(<<<<"args", PyTuple(args)>>, <<"kwargs", PyDict(<<>>)>>>>))

on_miss_stores_failure(w, d, g, cache_key, outcome, reads, fault) ==
    LET result == IF outcome = "raise" THEN "r1" ELSE outcome
        s == set(After(w, g), cache_key, result, d.ttl, fault)
    IN Called(s, IF outcome = "raise" THEN None ELSE outcome, outcome = "raise",
              1, reads, 1, FALSE)

\* lines 74-81, after a read that left the stores as in g
on_miss(w, d, g, cache_key, outcome, reads, fault) ==
    LET s == set(After(w, g), cache_key, outcome, d.ttl, fault) IN
    IF outcome = "raise" THEN Called(g, None, TRUE, 1, reads, 0, FALSE)
    ELSE IF condition_holds(d.condition, outcome)
    THEN Called(s, outcome, s.raised, 1, reads, 1, FALSE)
    ELSE Called(g, outcome, FALSE, 1, reads, 0, FALSE)

\* lines 60-81
cached_call(w, d, args, outcome, fault) ==
    LET cache_key == wrapper_key(w, args)
        g == get(w, cache_key)
    IN IF g.raised THEN Called(g, None, TRUE, 0, 1, 0, FALSE)
       ELSE IF g.ret # None THEN Called(g, g.ret, FALSE, 0, 1, 0, FALSE)
       ELSE on_miss(w, d, g, cache_key, outcome, 1, fault)

wrapper_skip_refreshes(w, d, args, skip, outcome, fault) ==
    IF ~is_cache_enabled(d) THEN call_through(w, outcome, skip # "absent")
    ELSE IF skip = "True"
    THEN on_miss(w, d, Untouched(w), wrapper_key(w, args), outcome, 0, fault)
    ELSE cached_call(w, d, args, outcome, fault)

\* lines 47-81
wrapper(w, d, args, skip, outcome, fault) ==
    IF ~is_cache_enabled(d) THEN call_through(w, outcome, skip # "absent")
    ELSE IF skip = "True" THEN call_through(w, outcome, FALSE)
    ELSE cached_call(w, d, args, outcome, fault)

\* line 84: cache_engine.clear(f"{func_prefix}:*")
cache_clear(w) == clear(w, <<FuncPrefix, ":", "*">>)

cache_delete_prefix_only(w, args) ==
    delete(w, _generate_key(w.e.cache_name, FuncPrefix, PyDict(<<>>)))

\* lines 85-92: cache_engine.delete(cache_engine._generate_key(func_prefix,
\* {"args": args, "kwargs": kwargs}))
cache_delete(w, args) == delete(w, wrapper_key(w, args))

InitDeco ==
    /\ REDIS_AVAILABLE = TRUE /\ redisUp \in BOOLEAN /\ diskOk \in BOOLEAN /\ now = 1
    /\ InitStores
    /\ InitRegistry
    /\ InitThreads
    /\ InitKeys
    /\ InitObjectCache
    /\ deco \in [condition : Conditions, ttl : TTLs, cache_enabled : BOOLEAN, callable : {FALSE}]

Call(args, skip, outcome, fault) ==
    /\ Commit(wrapper(World, deco, args, skip, outcome, fault))
    /\ UNCHANGED diskSet

CacheClear ==
    /\ Commit(cache_clear(World))
    /\ UNCHANGED diskSet

CacheDelete(args) ==
    /\ Commit(cache_delete(World, args))
    /\ UNCHANGED diskSet

NextDeco ==
    \/ Tick
    \/ RedisFail
    \/ RedisRecover
    \/ CacheClear
    \/ \E a \in DecoArgs : CacheDelete(a)
    \/ \E a \in DecoArgs, k \in SkipKw, o \in CallOutcomes, f \in FaultsNow : Call(a, k, o, f)

SpecDeco == InitDeco /\ [][NextDeco]_vars

(***************************************************************************)
(* Claims about the engine's operations (specification Spec).  An          *)
(* operation's result in a state is what the operation, called in that     *)
(* state, returns and leaves behind.                                       *)
(***************************************************************************)
CacheKeyOf(k) == _generate_key(World.e.cache_name, "cache", PyStr(k))
PathOf(k) == _get_disk_path(World.e, CacheKeyOf(k))
DiskUsable == World.e.disk_cache_dir # NoPath /\ diskOk
RedisReached == UsesRedis(_ensure_redis(World.e, World)) /\ redisUp
ExpiredFiles ==
    {p \in DOMAIN disk : CanUnpickle(disk[p]) /\ pickle_loads(disk[p]).expires_at <= now}

\* C3: with the remote store raising on every call (the probe included) and
\* the disk store usable, set returns true without raising, and a get of the
\* key before its expiry returns the value set, from disk, without raising.
C3_FallbackTransparency ==
    ~redisUp =>
        /\ \A i \in SetInputs :
              DiskUsable =>
                  LET s == set(World, i[1], i[2], i[3], "open")
                      g == get(After(World, s), i[1])
                  IN s.ok /\ ~s.raised /\ s.tier = "disk"
                     /\ g.ret = i[2] /\ g.tier = "disk" /\ ~g.raised
        /\ \A k \in DOMAIN diskSet :
              now < diskSet[k].at + diskSet[k].ttl =>
                  LET g == get(World, k)
                  IN g.ret = diskSet[k].value /\ g.tier = "disk" /\ ~g.raised

C3_Witness ==
    /\ REDIS_AVAILABLE /\ ~redisUp /\ World.e.redis_client = None
    /\ K1 \in DOMAIN diskSet
    /\ now > diskSet[K1].at /\ now < diskSet[K1].at + diskSet[K1].ttl
    /\ get(World, K1).ret = diskSet[K1].value

\* C4: on the disk tier, after set(k, v, ttl) at time t a get(k) before
\* t + ttl returns v, a get(k) at or after t + ttl returns absent and removes
\* the file, and clear_expired(now) with now >= t + ttl removes the file.
C4_TtlOnDisk ==
    \A k \in DOMAIN diskSet :
        LET expiry == diskSet[k].at + diskSet[k].ttl
            g == get(World, k)
        IN /\ (g.tier = "disk" /\ now < expiry) => g.ret = diskSet[k].value
           /\ (g.tier = "disk" /\ now >= expiry) =>
                  (g.ret = None /\ PathOf(k) \notin DOMAIN g.disk)
           /\ \A a \in 1..(MaxTime + MaxTTL) :
                  a >= expiry =>
                      PathOf(k) \notin DOMAIN clear_expired(World.e, disk, a, now).files
           /\ now >= expiry =>
                  PathOf(k) \notin DOMAIN clear_expired(World.e, disk, NoArg, now).files

C4_Witness ==
    /\ K1 \in DOMAIN diskSet
    /\ now >= diskSet[K1].at + diskSet[K1].ttl
    /\ PathOf(K1) \notin DOMAIN disk
    /\ get(World, K1).tier = "disk"

\* C5: when the remote store is available and takes the write, set returns
\* true and leaves the disk store as it was: no record written, none purged.
C5_NoDualWrite ==
    \A i \in SetInputs :
        RedisReached =>
            LET s == set(World, i[1], i[2], i[3], "open")
            IN /\ s.ok
               /\ s.disk = disk
               /\ CacheKeyOf(i[1]) \in DOMAIN s.redis
               /\ pickle_loads(s.redis[CacheKeyOf(i[1])].data) = i[2]

C5_Witness ==
    /\ RedisReached
    /\ CacheKeyOf(K1) \in DOMAIN redis
    /\ ExpiredFiles # {}
    /\ PathOf(K1) \notin DOMAIN disk

\* C6: delete never raises, removes the key from the disk tier whatever the
\* remote removal did and from the remote tier when it is reached, returns
\* true exactly when a tier held the key and removed it, and a second delete
\* right after returns false.
C6_Delete ==
    \A k \in EngineKeys :
        LET d == delete(World, k)
            again == delete(After(World, d), k)
            heldRemote == RedisReached /\ CacheKeyOf(k) \in DOMAIN redis
            heldDisk == PathOf(k) # NoPath /\ PathOf(k) \in DOMAIN disk
        IN /\ ~d.raised
           /\ d.ok <=> (heldRemote \/ heldDisk)
           /\ PathOf(k) # NoPath => PathOf(k) \notin DOMAIN d.disk
           /\ RedisReached => CacheKeyOf(k) \notin DOMAIN d.redis
           /\ ~again.ok /\ ~again.raised

C6_Witness ==
    /\ RedisReached
    /\ CacheKeyOf(K1) \in DOMAIN redis
    /\ PathOf(K1) \in DOMAIN disk
    /\ delete(World, K1).ok

\* C7: clear(pattern) removes every stored entry whose logical key matches
\* the pattern: after set("tenant:42", v, ttl) returned true,
\* clear("tenant:*") counts at least one removal and get("tenant:42") is absent.
C7_ClearByPattern ==
    \A p \in Patterns, k \in EngineKeys :
        (Glob(p, k) /\ get(World, k).ret # None) =>
            LET c == clear(World, p)
            IN c.count >= 1 /\ get(After(World, c), k).ret = None

(***************************************************************************)
(* Claims about the hybrid_cache decorator (specification SpecDeco)        *)
(***************************************************************************)
A1 == <<PyInt(1)>>
A2 == <<PyInt(2)>>

\* what a call of the wrapper with these arguments would do now, without
\* skip_cache, when f would return "r2"
Plain(w, args) == wrapper(w, deco, args, "absent", "r2", "open")

\* C9: with the cache enabled, a call with skip_cache=True invokes the
\* function exactly once, reads no cache and writes none, returns what the
\* function returned, and leaves an existing valid entry for the same
\* arguments as it was: a later call without skip_cache still returns it.
C9_SkipCache ==
    deco.cache_enabled =>
        \A a \in DecoArgs, o \in Outcomes, f \in FaultsNow :
            LET r == wrapper(World, deco, a, "True", o, f)
                before == Plain(World, a)
                later == Plain(After(World, r), a)
            IN /\ r.invoked = 1 /\ r.reads = 0 /\ r.writes = 0
               /\ ~r.saw_skip
               /\ r.raised = (o = "raise")
               /\ o # "raise" => r.ret = o
               /\ r.e = World.e /\ r.redis = redis /\ r.disk = disk
               /\ before.invoked = 0 =>
                      (later.invoked = 0 /\ later.ret = before.ret)

\* The cache is enabled and holds a valid entry "r1" for the arguments A1, in
\* the remote store or on disk, while f would now return something else.
C9_Witness ==
    /\ deco.cache_enabled
    /\ Plain(World, A1).invoked = 0
    /\ Plain(World, A1).ret = "r1"
    /\ wrapper(World, deco, A1, "True", "r2", "open").ret = "r2"
    /\ disk # EmptyMap

\* C10: on a miss the result is written only when the condition accepts it.
\* When the condition rejects the result nothing is written to any tier and
\* the next call invokes the function again; when it accepts, the result is
\* stored in the tier in use with the decorator's ttl.
C10_Condition ==
    deco.cache_enabled =>
        \A a \in DecoArgs, o \in Results, f \in FaultsNow :
            LET ck == wrapper_key(World, a)
                g == get(World, ck)
                w1 == After(World, g)
                r == wrapper(World, deco, a, "absent", o, f)
                again == Plain(After(World, r), a)
                reach == UsesRedis(_ensure_redis(w1.e, w1)) /\ redisUp
                path == _get_disk_path(w1.e, CacheKeyOf(ck))
            IN r.invoked = 1 =>
                  IF deco.condition = "not_none" /\ o = None
                  THEN /\ r.writes = 0
                       /\ r.redis = g.redis /\ r.disk = g.disk
                       /\ again.invoked = 1
                  ELSE /\ r.writes = 1
                       /\ reach =>
                            /\ CacheKeyOf(ck) \in DOMAIN r.redis
                            /\ r.redis[CacheKeyOf(ck)] =
                                   [data |-> pickle_dumps(o), expires_at |-> now + deco.ttl]
                            /\ r.disk = g.disk
                       /\ (~reach /\ path # NoPath /\ diskOk) =>
                            /\ path \in DOMAIN r.disk
                            /\ pickle_loads(r.disk[path]) =
                                   [expires_at |-> now + deco.ttl, value |-> o]
                            /\ r.redis = g.redis

\* The condition rejects None, the arguments A1 miss, and an accepted result
\* of an earlier call is stored for the arguments A2.
C10_Witness ==
    /\ deco.cache_enabled /\ deco.condition = "not_none"
    /\ wrapper(World, deco, A1, "absent", None, "open").invoked = 1
    /\ wrapper(World, deco, A1, "absent", None, "open").writes = 0
    /\ Plain(World, A2).invoked = 0
    /\ Plain(World, A2).ret = "r1"

\* Some tier takes a write made now.
SomeTierServes == (REDIS_AVAILABLE /\ redisUp) \/ DiskUsable

\* C11: with the default condition, once a call has stored its result, a
\* later call with equal arguments (before expiry, nothing invalidated, the
\* tiers as available as before) returns the stored result without invoking
\* the function, whatever value the function returned.
C11_CacheHit ==
    (deco.cache_enabled /\ deco.condition = "always" /\ SomeTierServes) =>
        \A a \in DecoArgs, o \in Results :
            LET r == wrapper(World, deco, a, "absent", o, "open")
                later == Plain(After(World, r), a)
            IN (r.invoked = 1 /\ r.writes = 1) =>
                   (later.invoked = 0 /\ later.ret = o)

(***************************************************************************)
(* ObjectCacheEngine (cache/object_cache.py) and the object_cache          *)
(* decorator (specification SpecObj).  Objects are ids into the heap       *)
(* `resolved`; 0 is None.  What the wrapped resolver does on a call, and   *)
(* what the resolved instance's constructor does, are inputs.              *)
(***************************************************************************)
MaxResolved == 2

NoObj == 0
NoClass == [given |-> FALSE, name |-> <<>>]
Class(n) == [given |-> TRUE, name |-> n]

\* object_cache.py:40-42
ObjectCacheEngine_generate_key(module_name, class_name, function_name) ==
    IF class_name.given /\ class_name.name # <<>>
    THEN module_name \o <<":">> \o class_name.name \o <<":">> \o function_name
    ELSE module_name \o <<":">> \o function_name

KeyOfNames(t) ==
    ObjectCacheEngine_generate_key(t.module_name, t.class_name, t.function_name)

\* object_cache.py:62-65, cls._cache.get(key)
ObjectCacheEngine_get(c, t) ==
    IF KeyOfNames(t) \in DOMAIN c THEN c[KeyOfNames(t)] ELSE NoObj

\* object_cache.py:84-87
ObjectCacheEngine_set(c, t, obj) == Put(c, KeyOfNames(t), obj)

\* object_cache.py:140-146
ObjectCacheEngine_remove(c, t) ==
    [ok |-> KeyOfNames(t) \in DOMAIN c, cache |-> Remove(c, {KeyOfNames(t)})]

\* object_cache.py:94-95
ObjectCacheEngine_clear(c) == EmptyMap

Names(m, c, f) == [module_name |-> m, class_name |-> c, function_name |-> f]
T1 == Names(<<"a">>, Class(<<"b">>), <<"c">>)
T2 == Names(<<"a", ":", "b">>, NoClass, <<"c">>)
T3 == Names(<<"a">>, Class(<<>>), <<"c">>)
T4 == Names(<<>>, NoClass, <<"c">>)
NameTriples == {T1, T2, T3, T4}

\* what the resolver returns: a function, a class method, a method bound to
\* an instance, None; or it raises
Kinds == {"function", "classmethod", "bound"}
ResolverOutcomes == Kinds \cup {None, "raise"}
\* the constructor_parameters keyword: not passed, a dict, something else
Parameters == {"absent", "mapping", "other"}
CtorOutcomes == {"ok", "raise"}
\* the constructor only runs, and so only raises, when a mapping is passed
CallShapes ==
    {<<p, "ok">> : p \in Parameters} \cup {<<"mapping", "raise">>}

Resolution(c, h, ret, raised, invoked, ctor, looked) ==
    [cache |-> c, heap |-> h, ret |-> ret, raised |-> raised, invoked |-> invoked,
     ctor |-> ctor, looked |-> looked]

get_invoker_no_lookup(c, h, t, outcome) ==
    LET id == Cardinality(DOMAIN h) + 1 IN
    IF outcome \in {None, "raise"}
    THEN Resolution(c, h, NoObj, outcome = "raise", 1, 0, FALSE)
    ELSE Resolution(ObjectCacheEngine_set(c, t, id), Put(h, id, [kind |-> outcome]),
                    id, FALSE, 1, 0, FALSE)

\* decorators.py:204-250
get_invoker(c, h, t, outcome) ==
    LET cached == ObjectCacheEngine_get(c, t)
        id == Cardinality(DOMAIN h) + 1
    IN IF t.module_name = <<>> \/ t.function_name = <<>>
       THEN Resolution(c, h, NoObj, TRUE, 0, 0, FALSE)
       ELSE IF cached # NoObj THEN Resolution(c, h, cached, FALSE, 0, 0, TRUE)
       ELSE IF outcome = "raise" THEN Resolution(c, h, NoObj, TRUE, 1, 0, TRUE)
       ELSE IF outcome = None THEN Resolution(c, h, NoObj, FALSE, 1, 0, TRUE)
       ELSE Resolution(ObjectCacheEngine_set(c, t, id),
                       Put(h, id, [kind |-> outcome]),
                       id, FALSE, 1, 0, TRUE)

is_instance_method_any_callable(h, invoker) == invoker # NoObj
\* decorators.py:256-264
is_instance_method(h, invoker) == invoker # NoObj /\ h[invoker].kind = "bound"

object_wrapper_swallows(c, h, t, parameters, outcome, ctor) ==
    [get_invoker(c, h, t, outcome) EXCEPT !.raised = FALSE]
\* decorators.py:252-271
object_wrapper(c, h, t, parameters, outcome, ctor) ==
    LET g == get_invoker(c, h, t, outcome) IN
    IF g.raised THEN g
    ELSE IF parameters = "mapping" /\ is_instance_method(g.heap, g.ret)
    THEN IF ctor = "raise"
         THEN [g EXCEPT !.ret = NoObj, !.raised = TRUE, !.ctor = 1]
         ELSE [g EXCEPT !.ctor = 1]
    ELSE g

\* invoker.py:91-107, what resolve_proxied_callable can return for the names:
\* with a class name an attribute of a new instance (a bound method or a
\* class method), without one an attribute of the module
ResolvesTo(t) ==
    (IF t.class_name.given /\ t.class_name.name # <<>>
     THEN {"bound", "classmethod"} ELSE {"function"}) \cup {None, "raise"}

SameKey(t) == {u \in NameTriples : KeyOfNames(u) = KeyOfNames(t)}

InitObj ==
    /\ REDIS_AVAILABLE = FALSE /\ redisUp = FALSE /\ diskOk = TRUE /\ now = 1
    /\ InitStores
    /\ InitRegistry
    /\ InitThreads
    /\ InitKeys
    /\ InitObjectCache
    /\ deco = DecoNone

ObjFrame ==
    UNCHANGED <<envVars, storeVars, instances, objs, diskSet, deco, threadVars, keyVars,
                _lock, call>>

\* permanent remembers, for the names of a call in which the resolver
\* returned an object, that object; overwritten tells that a direct
\* ObjectCacheEngine.set put something else under the key since.
Resolve(t, parameters, outcome, ctor) ==
    LET r == object_wrapper(_cache, resolved, t, parameters, outcome, ctor) IN
    /\ outcome \in Kinds => Cardinality(DOMAIN resolved) < MaxResolved
    /\ _cache' = r.cache
    /\ resolved' = r.heap
    /\ permanent' = IF r.invoked = 1 /\ outcome \in Kinds
                    THEN Put(permanent, t, [obj |-> Cardinality(DOMAIN resolved) + 1,
                                            overwritten |-> FALSE])
                    ELSE permanent
    /\ ObjFrame

OcSet(t, obj) ==
    /\ _cache' = ObjectCacheEngine_set(_cache, t, obj)
    /\ permanent' = [u \in DOMAIN permanent |->
                        IF u \in SameKey(t) /\ permanent[u].obj # obj
                        THEN [permanent[u] EXCEPT !.overwritten = TRUE]
                        ELSE permanent[u]]
    /\ UNCHANGED resolved
    /\ ObjFrame

OcRemove(t) ==
    /\ _cache' = ObjectCacheEngine_remove(_cache, t).cache
    /\ permanent' = Remove(permanent, SameKey(t))
    /\ UNCHANGED resolved
    /\ ObjFrame

OcClear ==
    /\ _cache' = ObjectCacheEngine_clear(_cache)
    /\ permanent' = EmptyMap
    /\ UNCHANGED resolved
    /\ ObjFrame

NextObj ==
    \/ \E t \in NameTriples, s \in CallShapes : \E o \in ResolvesTo(t) :
          Resolve(t, s[1], o, s[2])
    \/ \E t \in NameTriples, obj \in DOMAIN resolved \cup {NoObj} : OcSet(t, obj)
    \/ \E t \in NameTriples : OcRemove(t)
    \/ OcClear

SpecObj == InitObj /\ [][NextObj]_vars

\* C12 as stated: after the resolver returned an object for three names,
\* every later call with those names returns that very object and does not
\* invoke the resolver, until remove for that key or clear.
C12_AlwaysReturned ==
    \A t \in DOMAIN permanent, p \in Parameters, o \in ResolverOutcomes, c \in CtorOutcomes :
        LET r == object_wrapper(_cache, resolved, t, p, o, c)
        IN ~permanent[t].overwritten =>
               (r.invoked = 0 /\ ~r.raised /\ r.ret = permanent[t].obj)

\* C12 (amended): after the resolver returned an object for three names, and
\* until remove or a direct set for that key or clear, a later call with
\* those names never invokes the resolver and leaves the entry in place; it
\* returns that very object, except that a call which passes a mapping as
\* constructor_parameters for a bound instance method raises what the
\* instance's constructor raises.
C12_Permanence ==
    \A t \in DOMAIN permanent, p \in Parameters, o \in ResolverOutcomes, c \in CtorOutcomes :
        LET r == object_wrapper(_cache, resolved, t, p, o, c)
            reinit == p = "mapping" /\ resolved[permanent[t].obj].kind = "bound"
        IN ~permanent[t].overwritten =>
               /\ r.invoked = 0
               /\ r.cache = _cache
               /\ ObjectCacheEngine_get(r.cache, t) = permanent[t].obj
               /\ r.raised = (reinit /\ c = "raise")
               /\ ~r.raised => r.ret = permanent[t].obj

\* The resolver returned a bound method for T1 and another object for T3;
\* T2, whose key is T1's, was never resolved; the entry of T1 is there.
C12_Witness ==
    /\ T1 \in DOMAIN permanent
    /\ ~permanent[T1].overwritten
    /\ resolved[permanent[T1].obj].kind = "bound"
    /\ T2 \notin DOMAIN permanent
    /\ T3 \in DOMAIN permanent
    /\ Cardinality(DOMAIN resolved) = MaxResolved

(***************************************************************************)
(* More claims about the hybrid_cache decorator (specification SpecDeco)   *)
(***************************************************************************)
\* The entries of the disk tier: the files holding a record not yet expired.
LiveDisk(d) ==
    LET live == {p \in DOMAIN d :
                    /\ CanUnpickle(d[p])
                    /\ IsRecord(pickle_loads(d[p]))
                    /\ IsNumber(pickle_loads(d[p]))
                    /\ pickle_loads(d[p]).expires_at > now}
    IN [p \in live |-> d[p]]

\* C13: when the wrapped function raises, the exception reaches the caller
\* and nothing is written to either tier: the remote store is as before and
\* the disk tier holds the same entries as before (the read that precedes
\* the call may only have unlinked the key's expired file).
C13_RaiseNotCached ==
    \A a \in DecoArgs, k \in SkipKw, f \in FaultsNow :
        LET r == wrapper(World, deco, a, k, "raise", f)
        IN r.invoked = 1 =>
              /\ r.raised /\ r.ret = None
              /\ r.writes = 0
              /\ r.redis = redis
              /\ LiveDisk(r.disk) = LiveDisk(disk)
              /\ \A p \in DOMAIN r.disk : p \in DOMAIN disk /\ r.disk[p] = disk[p]
              /\ (deco.cache_enabled /\ k # "True") =>
                     Plain(After(World, r), a).invoked = 1

\* The cache is enabled, A2 has a valid entry, A1 misses with its expired
\* file still on disk, and f raises on the call for A1.
C13_Witness ==
    /\ deco.cache_enabled
    /\ Plain(World, A2).invoked = 0
    /\ wrapper(World, deco, A1, "absent", "raise", "open").raised
    /\ _get_disk_path(World.e, CacheKeyOf(wrapper_key(World, A1)))
           \in DOMAIN disk \ DOMAIN LiveDisk(disk)
    /\ LiveDisk(disk) # EmptyMap

(***************************************************************************)
(* The disk tier under faults (specification SpecDisk): the file system    *)
(* starts refusing writes after the directory was set up, and files of the *)
(* cache directory are damaged or written by something else.               *)
(***************************************************************************)
DiskFail ==
    /\ diskOk
    /\ diskOk' = FALSE
    /\ UNCHANGED <<REDIS_AVAILABLE, redisUp, now, storeVars, instances, objs, diskSet, deco>>
    /\ UNCHANGED <<threadVars, keyVars, objVars>>

DiskRecover ==
    /\ ~diskOk
    /\ diskOk' = TRUE
    /\ UNCHANGED <<REDIS_AVAILABLE, redisUp, now, storeVars, instances, objs, diskSet, deco>>
    /\ UNCHANGED <<threadVars, keyVars, objVars>>

\* What a damaged file holds: bytes that do not unpickle, a pickled list, a
\* pickled dict without expires_at, a pickled dict whose expires_at is a str.
BadKinds == {"garbage", "not_a_dict", "no_expires_at", "expires_at_str"}
BadContent(kind) ==
    CASE kind = "garbage" -> [garbage |-> TRUE]
      [] kind = "not_a_dict" -> pickle_dumps([list |-> <<>>])
      [] kind = "no_expires_at" -> pickle_dumps([value |-> "v1"])
      [] kind = "expires_at_str" -> pickle_dumps([expires_at |-> 0, expires_at_type |-> "str", value |-> "v1"])

Corrupt(key, kind) ==
    /\ PathOf(key) # NoPath
    /\ disk' = Put(disk, PathOf(key), BadContent(kind))
    /\ diskSet' = Remove(diskSet, {key})
    /\ UNCHANGED <<envVars, redis, instances, objs, deco, threadVars, keyVars, objVars>>

DiskInputs == {<<K1, "v1", ttl>> : ttl \in TTLs} \cup {<<K2, "v2", 1>>}

NextDisk ==
    \/ Tick
    \/ RedisFail
    \/ RedisRecover
    \/ DiskFail
    \/ DiskRecover
    \/ \E k \in EngineKeys : Get(k)
    \/ \E i \in DiskInputs, f \in FaultsNow : Set(i[1], i[2], i[3], f)
    \/ \E k \in EngineKeys, b \in BadKinds : Corrupt(k, b)

SpecDisk == Init /\ [][NextDisk]_vars

BadFile(p) ==
    /\ p \in DOMAIN disk
    /\ \/ ~CanUnpickle(disk[p])
       \/ ~IsRecord(pickle_loads(disk[p]))
       \/ ~IsNumber(pickle_loads(disk[p]))

\* C14: a get that reaches a malformed or unreadable record under the key's
\* file (undecodable bytes, not a mapping, a mapping without expires_at or
\* value, a mapping whose expires_at is not a number) does not raise,
\* returns absent and removes the file.
C14_BadRecordIsMiss ==
    \A k \in EngineKeys :
        LET g == get(World, k)
        IN (PathOf(k) # NoPath /\ BadFile(PathOf(k)) /\ g.tier = "disk") =>
               /\ ~g.raised
               /\ g.ret = None
               /\ PathOf(k) \notin DOMAIN g.disk

RemoteServes == UsesRedis(_ensure_redis(World.e, World)) /\ redisUp
NoBadFile == \A p \in DOMAIN disk : ~BadFile(p)

\* C15: when the remote store does not serve and the disk store is
\* unavailable or its write fails, set returns false and get returns absent
\* (no directory to read from), neither raises, and no stored record
\* changes: the remote store and the unexpired records on disk are as before.
C15_NoTierServes ==
    (~RemoteServes /\ NoBadFile /\ (World.e.disk_cache_dir = NoPath \/ ~diskOk)) =>
        /\ \A i \in DiskInputs, f \in FaultsNow :
              LET s == set(World, i[1], i[2], i[3], f)
              IN /\ ~s.ok /\ ~s.raised
                 /\ s.redis = redis
                 /\ LiveDisk(s.disk) = LiveDisk(disk)
        /\ \A k \in EngineKeys :
              LET g == get(World, k)
              IN /\ ~g.raised
                 /\ g.redis = redis
                 /\ LiveDisk(g.disk) = LiveDisk(disk)
                 /\ World.e.disk_cache_dir = NoPath => g.ret = None

\* C16: after results were cached for some arguments, cache_clear() makes
\* the next call with those arguments a miss that invokes the function.
C16_CacheClear ==
    deco.cache_enabled =>
        \A a \in DecoArgs :
            Plain(World, a).invoked = 0 =>
                Plain(After(World, cache_clear(World)), a).invoked = 1

RemoteRaises == UsesRedis(_ensure_redis(World.e, World)) /\ ~redisUp

\* C18: an operation (get, set, delete, clear) in which a remote call raised
\* swallows the error and leaves the availability flag false.
C18_ErrorDowngrades ==
    RemoteRaises =>
        /\ \A k \in EngineKeys :
              /\ ~get(World, k).raised /\ ~get(World, k).e.redis_available
              /\ ~delete(World, k).raised /\ ~delete(World, k).e.redis_available
        /\ \A i \in SetInputs :
              LET s == set(World, i[1], i[2], i[3], "open")
              IN ~s.raised /\ ~s.e.redis_available
        /\ \A p \in Patterns :
              ~clear(World, p).raised /\ ~clear(World, p).e.redis_available

\* C19: with the availability flag false and the remote store answering, the
\* next get, set, delete or clear probes first, ends with the flag true and
\* works on the remote tier: get returns what the remote store holds, set
\* writes there, delete and clear remove there.
C19_Reprobe ==
    (~World.e.redis_available /\ REDIS_AVAILABLE /\ redisUp) =>
        /\ \A k \in EngineKeys :
              LET g == get(World, k)
                  d == delete(World, k)
              IN /\ g.e.redis_available
                 /\ CacheKeyOf(k) \in DOMAIN redis =>
                        (g.tier = "redis" /\ g.ret = pickle_loads(redis[CacheKeyOf(k)].data))
                 /\ d.e.redis_available
                 /\ CacheKeyOf(k) \notin DOMAIN d.redis
                 /\ CacheKeyOf(k) \in DOMAIN redis => d.ok
        /\ \A i \in SetInputs :
              LET s == set(World, i[1], i[2], i[3], "open")
              IN /\ s.e.redis_available /\ s.ok /\ s.tier = "redis"
                 /\ CacheKeyOf(i[1]) \in DOMAIN s.redis
                 /\ s.redis[CacheKeyOf(i[1])] =
                        [data |-> pickle_dumps(i[2]), expires_at |-> now + i[3]]
        /\ \A p \in Patterns :
              LET c == clear(World, p)
              IN /\ c.e.redis_available
                 /\ \A k \in DOMAIN redis :
                        Glob(<<World.e.cache_name, ":">> \o p, k) => k \notin DOMAIN c.redis

\* The flag went false in an outage, the remote store is back and still
\* holds the entry of K1 written before the outage.
C19_Witness ==
    /\ REDIS_AVAILABLE /\ redisUp
    /\ ~World.e.redis_available
    /\ CacheKeyOf(K1) \in DOMAIN redis
    /\ get(World, K1).tier = "redis"

\* C20: clear_expired(now) removes exactly the files whose stored
\* expires_at <= now, for every now that is passed (0 included), returns
\* their number, leaves the other records in place and the remote store
\* alone.
C20_ClearExpiredExact ==
    World.e.disk_cache_dir # NoPath =>
        \A a \in NowArgs \ {NoArg} :
            LET ce == clear_expired(World.e, disk, a, now)
                due == {p \in DOMAIN disk : pickle_loads(disk[p]).expires_at <= a}
            IN /\ ~ce.raised
               /\ DOMAIN ce.files = DOMAIN disk \ due
               /\ \A p \in DOMAIN ce.files : ce.files[p] = disk[p]
               /\ ce.count = Cardinality(due)

(***************************************************************************)
(* hybrid_cache(cache_enabled=<callable>): what the callable returns       *)
(* changes between calls (specification SpecToggle)                        *)
(***************************************************************************)
InitToggle ==
    /\ REDIS_AVAILABLE = TRUE /\ redisUp \in BOOLEAN /\ diskOk = TRUE /\ now = 1
    /\ InitStores
    /\ InitRegistry
    /\ InitThreads
    /\ InitKeys
    /\ InitObjectCache
    /\ deco \in [condition : {"always"}, ttl : TTLs, cache_enabled : BOOLEAN,
                 callable : {TRUE}]

EnabledChanges ==
    /\ deco.callable
    /\ deco' = [deco EXCEPT !.cache_enabled = ~@]
    /\ UNCHANGED <<envVars, storeVars, instances, objs, diskSet, threadVars, keyVars, objVars>>

\* The remote store stays as it was found: up, or down with the disk serving.
NextToggle ==
    \/ Tick
    \/ EnabledChanges
    \/ \E a \in DecoArgs, k \in SkipKw, o \in CallOutcomes, f \in FaultsNow : Call(a, k, o, f)

SpecToggle == InitToggle /\ [][NextToggle]_vars

Enabled(d) == [d EXCEPT !.cache_enabled = TRUE]

\* C21: while cache_enabled evaluates to false, a call invokes the function
\* exactly once, reads no cache and writes none (an entry stored earlier is
\* neither returned nor replaced); the value is looked at on every call, so
\* once it evaluates to true again the call goes through the cache.
C21_Disabled ==
    \A a \in DecoArgs, k \in SkipKw, o \in Outcomes, f \in FaultsNow :
        LET r == wrapper(World, deco, a, k, o, f)
            on == wrapper(World, Enabled(deco), a, "absent", o, f)
        IN /\ ~deco.cache_enabled =>
                /\ r.invoked = 1 /\ r.reads = 0 /\ r.writes = 0
                /\ r.raised = (o = "raise")
                /\ o # "raise" => r.ret = o
                /\ r.e = World.e /\ r.redis = redis /\ r.disk = disk
           /\ on.reads = 1

\* The callable returns false now, and an entry stored while it returned
\* true is still there: the same call would hit if caching were on.
C21_Witness ==
    /\ deco.callable /\ ~deco.cache_enabled
    /\ wrapper(World, deco, A1, "absent", "r2", "open").ret = "r2"
    /\ wrapper(World, Enabled(deco), A1, "absent", "r2", "open").invoked = 0
    /\ wrapper(World, Enabled(deco), A1, "absent", "r2", "open").ret = "r1"

\* C22: on every call path (cache enabled or disabled, skip_cache true,
\* false or not passed) the wrapped function does not receive the
\* skip_cache keyword.
C22_SkipArgRemoved ==
    \A a \in DecoArgs, k \in SkipKw, o \in Outcomes, f \in FaultsNow :
        LET r == wrapper(World, deco, a, k, o, f)
        IN r.invoked = 1 => ~r.saw_skip

(***************************************************************************)
(* method_cache(ttl, include_class=True, include_method=True) around the   *)
(* method Settings.get_settings (specification SpecMethod).  A call is     *)
(* made from a function of the application; its name is an input.          *)
(***************************************************************************)
MethodPrefix == "app.Settings.get_settings"
MethodName == "get_settings"
ClassName == "Settings"
Callers == {"view_a", "view_b"}
\* the _method_name keyword of a call: absent, or the method's name
MethodNameKw == {"absent", MethodName}

\* lines 155-159: inspect.currentframe() is key_gen's frame, f_back the frame
\* that called key_gen (the wrapper, or the cache_delete lambda), f_back.f_back
\* the frame that called that one: the function the call is made from.
frame_co_name(caller) == caller

\* lines 133-168, for an instance-method call: args[0] is the instance
key_gen(caller, args, method_kw) ==
    LET method_name == IF method_kw # "absent" THEN method_kw ELSE frame_co_name(caller)
        kwargs == IF method_kw = "absent" THEN <<>> ELSE <<<<"_method_name", method_kw>>>>
    IN PyStr(<<ClassName, ":", method_name, ":", ToString(args), ":", ToString(kwargs)>>)

\* lines 61-63
method_key(w, caller, args, method_kw) ==
    _generate_key(w.e.cache_name, MethodPrefix, key_gen(caller, args, method_kw))

\* lines 47-81 with key_generator = key_gen
method_wrapper(w, d, caller, args, method_kw, outcome, fault) ==
    LET cache_key == method_key(w, caller, args, method_kw)
        g == get(w, cache_key)
    IN IF ~is_cache_enabled(d) THEN call_through(w, outcome, FALSE)
       ELSE IF g.raised THEN Called(g, None, TRUE, 0, 1, 0, FALSE)
       ELSE IF g.ret # None THEN Called(g, g.ret, FALSE, 0, 1, 0, FALSE)
       ELSE on_miss(w, d, g, cache_key, outcome, 1, fault)

\* lines 85-92 with key_generator = key_gen
method_cache_delete(w, caller, args, method_kw) ==
    delete(w, method_key(w, caller, args, method_kw))

InitMethod ==
    /\ REDIS_AVAILABLE = TRUE /\ redisUp \in BOOLEAN /\ diskOk = TRUE /\ now = 1
    /\ InitStores
    /\ InitRegistry
    /\ InitThreads
    /\ InitKeys
    /\ InitObjectCache
    /\ deco \in [condition : {"always"}, ttl : TTLs, cache_enabled : {TRUE}, callable : {FALSE}]

MethodCall(caller, args, method_kw, outcome, fault) ==
    /\ Commit(method_wrapper(World, deco, caller, args, method_kw, outcome, fault))
    /\ UNCHANGED diskSet

MethodCacheDelete(caller, args, method_kw) ==
    /\ Commit(method_cache_delete(World, caller, args, method_kw))
    /\ UNCHANGED diskSet

NextMethod ==
    \/ Tick
    \/ \E c \in Callers, a \in DecoArgs, m \in MethodNameKw :
          MethodCall(c, a, m, "r1", "open")
    \/ \E c \in Callers, a \in DecoArgs, m \in MethodNameKw : MethodCacheDelete(c, a, m)

SpecMethod == InitMethod /\ [][NextMethod]_vars

\* C23: with include_method=True the key names the cached method, so the
\* same method called on the same class with the same arguments from any two
\* functions has one key and one entry: after a call from one function has
\* stored its result, the call from the other is served from the cache, and
\* cache_delete made from the other removes that entry.
C23_MethodKey ==
    \A c1 \in Callers, c2 \in Callers, a \in DecoArgs :
        LET first == method_wrapper(World, deco, c1, a, "absent", "r1", "open")
            w1 == After(World, first)
            second == method_wrapper(w1, deco, c2, a, "absent", "r2", "open")
            d == method_cache_delete(w1, c2, a, "absent")
            again == method_wrapper(After(w1, d), deco, c1, a, "absent", "r2", "open")
        IN /\ method_key(World, c1, a, "absent") = method_key(World, c2, a, "absent")
           /\ ~first.raised /\ first.ret = "r1"
                 => /\ second.invoked = 0 /\ second.ret = "r1"
                    /\ again.invoked = 1

(***************************************************************************)
(* More claims about object_cache (specification SpecObj)                  *)
(***************************************************************************)
\* What a call with the names t resolves to when the resolver's outcome is
\* o: the cached object, else the object the resolver returns (its kind).
ResolvedKind(t, o) ==
    LET cached == ObjectCacheEngine_get(_cache, t) IN
    IF t.module_name = <<>> \/ t.function_name = <<>> THEN "nothing"
    ELSE IF cached # NoObj THEN resolved[cached].kind
    ELSE IF o \in Kinds THEN o
    ELSE "nothing"

\* C24: a call that passes constructor_parameters as a mapping (a dict) and
\* resolves, from the cache or freshly, to a bound instance method invokes
\* the instance's constructor once, and returns the method when the
\* constructor returns; for a function, a class method, or a call without a
\* mapping, no constructor is invoked.
C24_LateBinding ==
    \A t \in NameTriples, p \in Parameters, o \in ResolverOutcomes, c \in CtorOutcomes :
        LET r == object_wrapper(_cache, resolved, t, p, o, c)
            late == p = "mapping" /\ ResolvedKind(t, o) = "bound"
        IN /\ r.ctor = (IF late THEN 1 ELSE 0)
           /\ (late /\ c = "ok") =>
                  /\ ~r.raised /\ r.ret # NoObj /\ r.heap[r.ret].kind = "bound"
                  /\ ObjectCacheEngine_get(r.cache, t) = r.ret

\* A bound method is cached for T1, so a call with a mapping runs the
\* constructor without resolving; a function is cached for T3, and a call
\* with a mapping for it runs no constructor.
C24_Witness ==
    /\ ObjectCacheEngine_get(_cache, T1) # NoObj
    /\ resolved[ObjectCacheEngine_get(_cache, T1)].kind = "bound"
    /\ object_wrapper(_cache, resolved, T1, "mapping", "raise", "ok").invoked = 0
    /\ object_wrapper(_cache, resolved, T1, "mapping", "raise", "ok").ctor = 1
    /\ ObjectCacheEngine_get(_cache, T3) # NoObj
    /\ resolved[ObjectCacheEngine_get(_cache, T3)].kind = "function"
    /\ object_wrapper(_cache, resolved, T3, "mapping", "raise", "ok").ctor = 0

\* C25: resolution failures surface and are never cached: without a module
\* name or a function name the call raises before any lookup and without
\* invoking the resolver; when the resolver raises on a miss the exception
\* reaches the caller, the Object Cache is as before, and the next call with
\* the same names invokes the resolver again.
C25_FailuresNotCached ==
    \A t \in NameTriples, p \in Parameters, c \in CtorOutcomes :
        LET r == object_wrapper(_cache, resolved, t, p, "raise", c)
            next == object_wrapper(r.cache, r.heap, t, p, "function", c)
        IN /\ (t.module_name = <<>> \/ t.function_name = <<>>) =>
                  /\ r.raised /\ ~r.looked /\ r.invoked = 0
                  /\ r.cache = _cache
           /\ r.invoked = 1 =>
                  /\ r.raised /\ r.ret = NoObj
                  /\ r.cache = _cache /\ r.heap = resolved
                  /\ next.invoked = 1

\* The cache holds an object for T3 and nothing for T1: with T1 the resolver
\* is invoked and raises; with T4, which has no module name, it is not.
C25_Witness ==
    /\ ObjectCacheEngine_get(_cache, T3) # NoObj
    /\ ObjectCacheEngine_get(_cache, T1) = NoObj
    /\ object_wrapper(_cache, resolved, T1, "absent", "raise", "ok").invoked = 1
    /\ object_wrapper(_cache, resolved, T1, "absent", "raise", "ok").raised
    /\ object_wrapper(_cache, resolved, T4, "absent", "raise", "ok").raised
    /\ object_wrapper(_cache, resolved, T4, "absent", "raise", "ok").invoked = 0

(***************************************************************************)
(* Threads calling ObjectCacheEngine (specification SpecOc).  A call is a  *)
(* sequence of steps: take _lock (`with cls._lock:`), the statements of    *)
(* the block one at a time, release.  Steps of different threads           *)
(* interleave freely; only the lock orders them.                           *)
(***************************************************************************)
OcNames == {T1, T3}
OcObjects == {1}
OcOps == {"get", "set", "remove", "clear", "size", "get_stats"}

OcKey(t) == KeyOfNames(call[t].names)

OcRest == UNCHANGED <<envVars, storeVars, instances, objs, diskSet, deco, threadVars,
                      keyVars, resolved, permanent>>

lock_free_always(t) == TRUE
\* threading.RLock.acquire: free, or already held by this thread
lock_free(t) == _lock \in {None, t}

\* the call is made; lines 62, 84, 140 compute the key before the lock
OcBegin(t, op, names, obj) ==
    /\ call[t].at \in {"idle", "done"}
    /\ call' = [call EXCEPT ![t] =
                   [NoCall EXCEPT !.op = op, !.at = "lock", !.names = names, !.obj = obj,
                                  !.was_present = op = "remove"
                                                  /\ KeyOfNames(names) \in DOMAIN _cache]]
    /\ UNCHANGED <<_cache, _lock>>
    /\ OcRest

\* with cls._lock:
OcAcquire(t) ==
    /\ call[t].op \in OcOps /\ call[t].at = "lock"
    /\ lock_free(t)
    /\ _lock' = t
    /\ call' = [call EXCEPT ![t].at = "body"]
    /\ UNCHANGED _cache
    /\ OcRest

\* A set or a clear ends what the removes that returned before it say about
\* the key as it is now.
Outdated(c, t, keys) ==
    [u \in Threads |->
        IF u # t /\ c[u].op = "remove" /\ KeyOfNames(c[u].names) \in keys
        THEN [c[u] EXCEPT !.stale = TRUE] ELSE c[u]]

\* the first statement of the block: lines 65, 87, 95, 106, 118, 142
OcBody(t) ==
    LET op == call[t].op
        key == OcKey(t)
    IN /\ op \in OcOps /\ call[t].at = "body"
       /\ _cache' = IF op = "set" THEN Put(_cache, key, call[t].obj)
                    ELSE IF op = "clear" THEN EmptyMap
                    ELSE _cache
       /\ call' =
            IF op = "get"
            THEN [call EXCEPT ![t].at = "unlock",
                              ![t].ret_obj = IF key \in DOMAIN _cache THEN _cache[key] ELSE NoObj]
            ELSE IF op = "set"
            THEN Outdated([call EXCEPT ![t].at = "unlock"], t, {key})
            ELSE IF op = "clear"
            THEN Outdated([call EXCEPT ![t].at = "unlock"], t, DOMAIN _cache)
            ELSE IF op = "size"
            THEN [call EXCEPT ![t].at = "unlock", ![t].ret_size = Cardinality(DOMAIN _cache)]
            ELSE IF op = "get_stats"
            THEN [call EXCEPT ![t].at = "body2", ![t].ret_size = Cardinality(DOMAIN _cache)]
            ELSE [call EXCEPT ![t].at = "body2", ![t].present = key \in DOMAIN _cache]
       /\ UNCHANGED _lock
       /\ OcRest

\* the second statement: line 119 (list(cls._cache.keys())), lines 143-146
\* (del cls._cache[key], which raises KeyError when the key is not there)
OcBody2(t) ==
    LET op == call[t].op
        key == OcKey(t)
    IN /\ op \in {"get_stats", "remove"} /\ call[t].at = "body2"
       /\ _cache' = IF op = "remove" /\ call[t].present THEN Remove(_cache, {key}) ELSE _cache
       /\ call' =
            IF op = "get_stats"
            THEN [call EXCEPT ![t].at = "unlock", ![t].ret_keys = DOMAIN _cache]
            ELSE IF call[t].present /\ key \notin DOMAIN _cache
            THEN [call EXCEPT ![t].at = "unlock", ![t].raised = TRUE]
            ELSE [call EXCEPT ![t].at = "unlock", ![t].ret_ok = call[t].present]
       /\ UNCHANGED _lock
       /\ OcRest

\* leaving the block releases the lock; the call returns
OcRelease(t) ==
    /\ call[t].op \in OcOps /\ call[t].at = "unlock"
    /\ _lock' = IF _lock = t THEN None ELSE _lock
    /\ call' = [call EXCEPT ![t].at = "done"]
    /\ UNCHANGED _cache
    /\ OcRest

InitOc ==
    /\ REDIS_AVAILABLE = FALSE /\ redisUp = FALSE /\ diskOk = TRUE /\ now = 1
    /\ InitStores
    /\ InitRegistry
    /\ InitThreads
    /\ InitKeys
    /\ _cache = EmptyMap
    /\ resolved = [i \in OcObjects |-> [kind |-> "function"]]
    /\ permanent = EmptyMap
    /\ _lock = None
    /\ call = [t \in Threads |-> NoCall]
    /\ deco = DecoNone

NextOc ==
    \E t \in Threads :
        \/ \E op \in {"get", "remove"}, n \in OcNames : OcBegin(t, op, n, NoObj)
        \/ \E n \in OcNames, obj \in OcObjects : OcBegin(t, "set", n, obj)
        \/ \E op \in {"clear", "size", "get_stats"} : OcBegin(t, op, NoNames, NoObj)
        \/ OcAcquire(t)
        \/ OcBody(t)
        \/ OcBody2(t)
        \/ OcRelease(t)

SpecOc == InitOc /\ [][NextOc]_vars

Returned_(t, op) == call[t].op = op /\ call[t].at \in {"unlock", "done"}

\* C26: the operations are atomic with respect to one another: between the
\* statements of one operation's block no other thread changes or reads the
\* dictionary, so get_stats returns a size equal to the number of keys it
\* lists, remove returns true exactly when the key was there at the moment
\* of removal (and never fails), and of two concurrent removes of one
\* present key exactly one returns true.
C26_Atomic ==
    /\ \A t \in Threads : \A u \in Threads \ {t} :
           call[t].at \in {"body", "body2", "unlock"} =>
               call[u].at \notin {"body", "body2", "unlock"}
    /\ \A t \in Threads :
           /\ Returned_(t, "get_stats") =>
                  /\ call[t].ret_size = Cardinality(call[t].ret_keys)
                  /\ call[t].at = "unlock" => call[t].ret_keys = DOMAIN _cache
           /\ (call[t].op = "remove" /\ call[t].at = "body2") =>
                  call[t].present = (OcKey(t) \in DOMAIN _cache)
           /\ Returned_(t, "remove") =>
                  /\ ~call[t].raised
                  /\ call[t].ret_ok = call[t].present
                  /\ call[t].at = "unlock" => OcKey(t) \notin DOMAIN _cache
    /\ \A t \in Threads : \A u \in Threads \ {t} :
           (/\ call[t].op = "remove" /\ call[t].at = "done" /\ ~call[t].stale
            /\ call[u].op = "remove" /\ call[u].at = "done" /\ ~call[u].stale
            /\ OcKey(t) = OcKey(u)
            /\ call[t].was_present /\ call[u].was_present)
           => (call[t].ret_ok # call[u].ret_ok)

\* Two removes of T1, both begun while its key was there, have returned,
\* and no set or clear came since.
C26_Witness ==
    \E t \in Threads : \E u \in Threads \ {t} :
        /\ call[t].op = "remove" /\ call[t].at = "done" /\ ~call[t].stale
        /\ call[u].op = "remove" /\ call[u].at = "done" /\ ~call[u].stale
        /\ call[t].names = T1 /\ call[u].names = T1
        /\ call[t].was_present /\ call[u].was_present
        /\ call[t].ret_ok /\ ~call[u].ret_ok
        /\ KeyOfNames(T3) \in DOMAIN _cache

(***************************************************************************)
(* Threads calling an object_cache-decorated resolver (specification       *)
(* SpecResolve): decorators.py:204-271 step by step.  The Object Cache is  *)
(* empty at the start and only these calls touch it.                       *)
(***************************************************************************)
\* the call is made with valid names; lines 205-210 pass
RBegin(t, names, parameters) ==
    /\ call[t].at \in {"idle", "done"}
    /\ call' = [call EXCEPT ![t] =
                   [NoCall EXCEPT !.op = "resolve", !.at = "get_lock", !.names = names,
                                  !.parameters = parameters]]
    /\ UNCHANGED <<_cache, _lock, resolved>>
    /\ UNCHANGED <<envVars, storeVars, instances, objs, diskSet, deco, threadVars, keyVars,
                   permanent>>

RRest == UNCHANGED <<envVars, storeVars, instances, objs, diskSet, deco, threadVars,
                     keyVars, permanent>>

\* `with cls._lock:` in ObjectCacheEngine.get (line 64) and .set (line 86)
RLock(t) ==
    /\ call[t].op = "resolve" /\ call[t].at \in {"get_lock", "set_lock"}
    /\ lock_free(t)
    /\ _lock' = t
    /\ call' = [call EXCEPT ![t].at = IF call[t].at = "get_lock" THEN "get_body" ELSE "set_body"]
    /\ UNCHANGED <<_cache, resolved>>
    /\ RRest

\* object_cache.py:65, return cls._cache.get(key)
RGet(t) ==
    /\ call[t].op = "resolve" /\ call[t].at = "get_body"
    /\ call' = [call EXCEPT ![t].at = "get_unlock",
                            ![t].obj = ObjectCacheEngine_get(_cache, call[t].names)]
    /\ UNCHANGED <<_cache, _lock, resolved>>
    /\ RRest

\* object_cache.py:87, cls._cache[key] = obj
RSet(t) ==
    /\ call[t].op = "resolve" /\ call[t].at = "set_body"
    /\ _cache' = ObjectCacheEngine_set(_cache, call[t].names, call[t].obj)
    /\ call' = [call EXCEPT ![t].at = "set_unlock"]
    /\ UNCHANGED <<_lock, resolved>>
    /\ RRest

\* The lock is released; decorators.py:219 (a hit returns the cached
\* object) or 230 (a miss goes on to the resolver), and 243 after the set.
RUnlock(t) ==
    /\ call[t].op = "resolve" /\ call[t].at \in {"get_unlock", "set_unlock"}
    /\ _lock' = IF _lock = t THEN None ELSE _lock
    /\ call' = [call EXCEPT ![t].at = IF call[t].at = "get_unlock" /\ call[t].obj = NoObj
                                      THEN "miss" ELSE "late"]
    /\ UNCHANGED <<_cache, resolved>>
    /\ RRest

\* decorators.py:230-232 and 244-250: invoker = func(*args, **kwargs); an
\* exception propagates, None is returned without a set
RInvoke(t, outcome) ==
    LET id == Cardinality(DOMAIN resolved) + 1 IN
    /\ call[t].op = "resolve" /\ call[t].at = "miss"
    /\ outcome \in Kinds => Cardinality(DOMAIN resolved) < MaxResolved
    /\ resolved' = IF outcome \in Kinds THEN Put(resolved, id, [kind |-> outcome]) ELSE resolved
    /\ call' = IF outcome = "raise"
               THEN [call EXCEPT ![t].at = "done", ![t].invoked = TRUE, ![t].raised = TRUE]
               ELSE IF outcome = None
               THEN [call EXCEPT ![t].at = "late", ![t].invoked = TRUE]
               ELSE [call EXCEPT ![t].at = "set_lock", ![t].invoked = TRUE, ![t].obj = id]
    /\ UNCHANGED <<_cache, _lock>>
    /\ RRest

\* decorators.py:254-268: the constructor runs again for a bound method
\* when a dict was passed; the invoker is returned
RLate(t) ==
    /\ call[t].op = "resolve" /\ call[t].at = "late"
    /\ call' = [call EXCEPT ![t].at = "done", ![t].ret_obj = call[t].obj,
                            ![t].ctor = IF call[t].parameters = "mapping"
                                           /\ is_instance_method(resolved, call[t].obj)
                                        THEN 1 ELSE 0]
    /\ UNCHANGED <<_cache, _lock, resolved>>
    /\ RRest

InitResolve ==
    /\ REDIS_AVAILABLE = FALSE /\ redisUp = FALSE /\ diskOk = TRUE /\ now = 1
    /\ InitStores
    /\ InitRegistry
    /\ InitThreads
    /\ InitKeys
    /\ InitObjectCache
    /\ deco = DecoNone

NextResolve ==
    \E t \in Threads :
        \/ \E n \in OcNames, p \in {"absent", "mapping"} : RBegin(t, n, p)
        \/ RLock(t)
        \/ RGet(t)
        \/ RSet(t)
        \/ RUnlock(t)
        \/ \E o \in ResolvesTo(call[t].names) : RInvoke(t, o)
        \/ RLate(t)

SpecResolve == InitResolve /\ [][NextResolve]_vars

\* C29: of the calls made with the same names on the cache that started
\* empty, those that returned an object all returned the same one, it is the
\* object the Object Cache holds, and the resolver returned an object in at
\* most one of them.
C29_ResolvedOnce ==
    \A t \in Threads : \A u \in Threads \ {t} :
        (/\ call[t].op = "resolve" /\ call[t].at = "done" /\ call[t].ret_obj # NoObj
         /\ call[u].op = "resolve" /\ call[u].at = "done" /\ call[u].ret_obj # NoObj
         /\ call[t].names = call[u].names)
        => /\ call[t].ret_obj = call[u].ret_obj
           /\ ObjectCacheEngine_get(_cache, call[t].names) = call[t].ret_obj
           /\ ~(call[t].invoked /\ call[u].invoked)

(***************************************************************************)
(* Coherence across availability changes (specification Spec) and          *)
(* initialization under concurrent construction (specification SpecConc)   *)
(***************************************************************************)
\* the world after an operation, with the remote store answering or not
Then(w, r, up) == [After(w, r) EXCEPT !.redisUp = up]

\* C27: whatever the engine went through and whether or not the remote
\* store answers afterwards, a get that follows a successful set(k, v)
\* returns absent or v, and a get that follows delete(k) or a matching clear
\* returns absent: no value stored earlier comes back.
C27_Coherence ==
    \A k \in EngineKeys, up \in (IF REDIS_AVAILABLE THEN BOOLEAN ELSE {FALSE}) :
        /\ \A v \in Values, ttl \in TTLs, f \in FaultsNow :
               LET s == set(World, k, v, ttl, f)
                   g == get(Then(World, s, up), k)
               IN (s.ok /\ ~s.raised) => g.ret \in {None, v}
        /\ get(Then(World, delete(World, k), up), k).ret = None
        /\ get(Then(World, clear(World, <<"*">>), up), k).ret = None

\* C28: an engine instance is initialized at most once: the body of
\* __init__ (attributes reset, disk setup, remote setup) runs at most once on
\* each instance, whatever the interleaving of the constructions.
C28_InitOnce == \A id \in DOMAIN objs : objs[id].inits <= 1

(***************************************************************************)
(* Authorizer and AuthPolicy (authorizer.py; specification SpecAuth).      *)
(* Each Authorizer owns one AuthPolicy, created in its constructor.        *)
(***************************************************************************)
MaxCalls == 4

Authorizers == {"user1", "user2"}
Contexts == {None, "ctx"}

\* authorizer.py:246-260 and 44-64
Authorizer___init__(principal_id, aws_account_id, api_id, region, stage) ==
    [principal_id |-> principal_id, aws_account_id |-> aws_account_id,
     rest_api_id |-> api_id, region |-> region, stage |-> stage,
     allow_methods |-> <<>>, deny_methods |-> <<>>]

\* str.lower and str.capitalize on the effects that are passed
lower(effect) ==
    CASE effect = "Allow" -> "allow" [] effect = "Deny" -> "deny" [] OTHER -> effect
capitalize(effect) ==
    CASE effect \in {"Allow", "allow"} -> "Allow"
      [] effect \in {"Deny", "deny"} -> "Deny"
      [] OTHER -> effect

\* lines 76-78
_normalize_resource_path(resource) ==
    IF resource # <<>> /\ Head(resource) = "/" THEN Tail(resource) ELSE resource

\* lines 80-86
_build_resource_arn(p, verb, resource) ==
    <<"arn:aws:execute-api:", p.region, ":", p.aws_account_id, ":", p.rest_api_id, "/",
      p.stage, "/", verb, "/">> \o _normalize_resource_path(resource)

\* lines 88-112, for a verb and a path that pass the validations
_add_method(p, effect, verb, resource, conditions) ==
    LET method_entry == [resourceArn |-> _build_resource_arn(p, verb, resource),
                         conditions |-> conditions]
    IN IF lower(effect) = "allow"
       THEN [p EXCEPT !.allow_methods = Append(@, method_entry)]
       ELSE IF lower(effect) = "deny"
       THEN [p EXCEPT !.deny_methods = Append(@, method_entry)]
       ELSE p

\* lines 156-162
allow_all_methods(p) == _add_method(p, "Allow", "*", <<"*">>, <<>>)
deny_all_methods(p) == _add_method(p, "Deny", "*", <<"*">>, <<>>)

\* lines 114-120
_create_empty_statement(effect) ==
    [Action |-> "execute-api:Invoke", Effect |-> capitalize(effect), Resource |-> <<>>]

Unconditional(method) == method.conditions = <<>>
Conditional(method) == method.conditions # <<>>

\* lines 122-154
_build_statements_for_effect(effect, methods) ==
    LET plain == SelectSeq(methods, Unconditional)
        cond == SelectSeq(methods, Conditional)
        main_statement ==
            [_create_empty_statement(effect) EXCEPT
                !.Resource = [i \in 1..Len(plain) |-> plain[i].resourceArn]]
        conditional == [i \in 1..Len(cond) |->
                          [Action |-> "execute-api:Invoke", Effect |-> capitalize(effect),
                           Resource |-> <<cond[i].resourceArn>>,
                           Condition |-> cond[i].conditions]]
    IN IF methods = <<>> THEN <<>>
       ELSE conditional \o (IF plain # <<>> THEN <<main_statement>> ELSE <<>>)

\* lines 206-235
build(p) ==
    IF p.allow_methods = <<>> /\ p.deny_methods = <<>>
    THEN [raised |-> TRUE, principalId |-> p.principal_id, Statement |-> <<>>]
    ELSE [raised |-> FALSE, principalId |-> p.principal_id,
          Statement |-> _build_statements_for_effect("Allow", p.allow_methods)
                        \o _build_statements_for_effect("Deny", p.deny_methods)]

\* lines 262-283: the policy the call leaves behind and the response
authorize(p, is_allow, context) ==
    LET q == IF is_allow THEN allow_all_methods(p) ELSE deny_all_methods(p)
        auth_response == build(q)
    IN [policy |-> q, raised |-> auth_response.raised,
        principalId |-> auth_response.principalId,
        Statement |-> auth_response.Statement,
        context |-> IF context # None THEN context ELSE "absent"]

InitAuth ==
    /\ REDIS_AVAILABLE = FALSE /\ redisUp = FALSE /\ diskOk = TRUE /\ now = 1
    /\ InitStores
    /\ InitRegistry
    /\ InitThreads
    /\ InitObjectCache
    /\ deco = DecoNone
    /\ kin = <<>>
    /\ kout = <<>>
    /\ policy = [a \in Authorizers |->
                    Authorizer___init__(a, "123456789012", "api1", "us-east-1", "prod")]

Authorize(a, is_allow, context) ==
    /\ Len(policy[a].allow_methods) + Len(policy[a].deny_methods) < MaxCalls
    /\ policy' = [policy EXCEPT ![a] = authorize(@, is_allow, context).policy]
    /\ UNCHANGED <<kin, kout>>
    /\ UNCHANGED <<envVars, storeVars, instances, objs, diskSet, deco, threadVars, objVars>>

NextAuth == \E a \in Authorizers, is_allow \in BOOLEAN, c \in Contexts : Authorize(a, is_allow, c)

SpecAuth == InitAuth /\ [][NextAuth]_vars

WildcardArn(p) == _build_resource_arn(p, "*", <<"*">>)

\* C30: after any sequence of authorize calls on an Authorizer, the response
\* of authorize reflects that call's decision only: it is returned, with
\* is_allow false all its statements are Deny, with is_allow true all are
\* Allow, and each statement has exactly one resource, the wildcard.
C30_OwnDecision ==
    \A a \in Authorizers, is_allow \in BOOLEAN, c \in Contexts :
        LET r == authorize(policy[a], is_allow, c) IN
        /\ ~r.raised
        /\ r.Statement # <<>>
        /\ \A i \in 1..Len(r.Statement) :
               /\ r.Statement[i].Effect = (IF is_allow THEN "Allow" ELSE "Deny")
               /\ r.Statement[i].Resource = <<WildcardArn(policy[a])>>
====
